---- MODULE Spec2Model ----
(***************************************************************************)
(* Model of mic_transcribe.py: the AudioRecorder push-to-talk pipeline.    *)
(*                                                                         *)
(* Three kinds of execution context share the recorder object:             *)
(*   - the key listener thread, which runs on_key_press / on_key_release   *)
(*     (and, inside them, start_recording / stop_recording) one event at   *)
(*     a time;                                                             *)
(*   - one _record thread per start_recording call, which owns an          *)
(*     sd.InputStream for as long as it is inside the with block;          *)
(*   - the audio backend, which calls _audio_callback for every stream     *)
(*     that is open.                                                       *)
(* The main thread only sleeps in run() until KeyboardInterrupt.           *)
(***************************************************************************)
EXTENDS Integers, Sequences, FiniteSets, TLC

\* ---- bounds of the model --------------------------------------------------
MaxThreads == 2      \* start_recording calls (capture threads) explored
MaxChunks == 2       \* chunks a buffer may hold
MaxPending == 1      \* key events waiting for the listener thread

\* ---- inputs ---------------------------------------------------------------
SampleRates == {4, 5}          \* --sample-rate values explored (even and odd)
FrameCounts == {2}             \* frames per delivered chunk
Whitespace == {" "}
Texts == {<<>>, <<" ">>, <<"a">>, <<" ", "a">>}   \* results of model.transcribe
Keys == {"cmd", "cmd_l", "cmd_r", "a"}
Kinds == {"press", "release"}

ThreadIds == 1..MaxThreads

VARIABLES
    recording,      \* self.recording
    audio_data,     \* self.audio_data: chunks [sess: the stream that delivered it,
                    \* frames, live: self.recording when it was appended]
    record_thread,  \* self.record_thread: id of the last thread, 0 = no attribute
    model,          \* self.model: "None" or "loaded"
    sample_rate,    \* self.sample_rate
    terminal_mode,  \* self.terminal_mode
    tpc,            \* position of every _record thread
    cb,             \* cb[t]: _audio_callback of stream t is between its test and its append
    lpc,            \* position of the listener thread
    events,         \* kinds of the key events not yet handled by the listener thread
    mainpc,         \* position of the main thread in run()
    clip,           \* local `audio` of stop_recording: the concatenated chunks
    text,           \* local `text` of stop_recording
    clipboard,      \* content of the system clipboard, "untouched" before the first copy
    injected,       \* xdotool invocations of the current cycle
    outcome,        \* which way the last trigger-key handler went
    raised,         \* the step of the current cycle that raised, "none" if none did
    endedBy,        \* what cleared self.recording in the current cycle: "release" or "error"
    appended,       \* chunks appended since start_recording cleared the buffer
    saveCalls,      \* _save_wav calls of the current cycle
    transCalls,     \* transcribe calls of the current cycle
    clipWrites,     \* pyperclip.copy calls of the current cycle
    insertCalls,    \* insert_text calls of the current cycle
    loadCalls       \* whisper.load_model calls since construction

shared == <<recording, audio_data, record_thread, model>>
config == <<sample_rate, terminal_mode>>
capture == <<tpc, cb>>
desktop == <<clipboard, injected>>
cycle == <<clip, text, raised, endedBy, saveCalls, transCalls, clipWrites, insertCalls>>
vars == <<recording, audio_data, record_thread, model, sample_rate, terminal_mode,
          tpc, cb, lpc, events, mainpc, clip, text, clipboard, injected, outcome,
          raised, endedBy, appended, saveCalls, transCalls, clipWrites, insertCalls, loadCalls>>

\* ---- pure helpers ---------------------------------------------------------

\* key == keyboard.Key.cmd or key == keyboard.Key.cmd_l or key == keyboard.Key.cmd_r
IsTrigger(key) == key = "cmd" \/ key = "cmd_l" \/ key = "cmd_r"

RECURSIVE Samples(_)
\* len(np.concatenate(chunks, axis=0).flatten()) for mono chunks
Samples(chunks) ==
    IF chunks = <<>> THEN 0 ELSE Head(chunks).frames + Samples(Tail(chunks))

\* variant: a clip of exactly half a second is rejected too
TooShortInclusive(n, rate) == n * 2 <= rate

\* len(audio) < self.sample_rate * 0.5, in integers
TooShort(n, rate) == n * 2 < rate

RECURSIVE LStrip(_)
LStrip(t) == IF t # <<>> /\ Head(t) \in Whitespace THEN LStrip(Tail(t)) ELSE t

RECURSIVE RStrip(_)
RStrip(t) ==
    IF t # <<>> /\ t[Len(t)] \in Whitespace THEN RStrip(SubSeq(t, 1, Len(t) - 1)) ELSE t

\* str.strip()
Strip(t) == RStrip(LStrip(t))

\* variant: the test without strip()
HasTextUnstripped(t) == t # <<>>

\* if text and text.strip():
HasText(t) == t # <<>> /\ Strip(t) # <<>>

\* variant: the model is loaded on every call
LoadAlways(m) == m \in {"None", "loaded"}

\* if self.model is None:
LoadNeeded(m) == m = "None"

\* the stream of thread t is open while the thread is inside the with block
StreamOpen(t) == tpc[t] \in {"loop", "closing"}

\* Thread.is_alive()
IsAlive(t) == t # 0 /\ tpc[t] \notin {"unborn", "done"}

\* positions of stop_recording after it has cleared self.recording
ProcessingPcs == {"stop_139", "stop_140", "stop_143", "stop_146", "stop_156",
                  "stop_159", "stop_164"}

\* variant: a callback is started for an event while stop_recording is still running
ListenerReentrant == lpc \in {"idle"} \cup ProcessingPcs

\* the listener thread runs one callback at a time
ListenerReady == lpc = "idle"

\* the process is running: run() is in its sleep loop
Running == mainpc = "running"

\* xdotool invocations of insert_text for a text
TypeCalls(t) == [i \in 1..Len(t) |-> <<"type", t[i]>>]
PasteCalls == << <<"key", "ctrl+v">> >>

\* ---- initial state: after AudioRecorder.__init__ --------------------------
Init ==
    /\ recording = FALSE
    /\ audio_data = <<>>
    /\ record_thread = 0
    /\ model = "None"
    /\ sample_rate \in SampleRates
    /\ terminal_mode \in BOOLEAN
    /\ tpc = [t \in ThreadIds |-> "unborn"]
    /\ cb = [t \in ThreadIds |-> FALSE]
    /\ lpc = "idle"
    /\ events = <<>>
    /\ mainpc = "created"
    /\ clip = <<>>
    /\ text = <<>>
    /\ clipboard = "untouched"
    /\ injected = <<>>
    /\ outcome = "none"
    /\ raised = "none"
    /\ endedBy = "none"
    /\ appended = 0
    /\ saveCalls = 0
    /\ transCalls = 0
    /\ clipWrites = 0
    /\ insertCalls = 0
    /\ loadCalls = 0

\* ---- main thread ----------------------------------------------------------

\* run(): self.keyboard_listener.start()
RunStart ==
    /\ mainpc = "created"
    /\ mainpc' = "running"
    /\ UNCHANGED <<shared, config, capture, desktop, cycle, lpc, events, outcome,
                   appended, loadCalls>>

\* run(): KeyboardInterrupt, finally: keyboard_listener.stop(); run returns and
\* the interpreter exits, ending the daemon threads where they are
Shutdown ==
    /\ Running
    /\ mainpc' = "exited"
    /\ UNCHANGED <<shared, config, capture, desktop, cycle, lpc, events, outcome,
                   appended, loadCalls>>

\* ---- key events -----------------------------------------------------------

\* the key source delivers an edge while the listener thread may be busy; the
\* listener thread reads which key it is when it handles the edge
KeyEvent(kind) ==
    /\ Running
    /\ Len(events) < MaxPending
    /\ events' = Append(events, kind)
    /\ UNCHANGED <<shared, config, capture, desktop, cycle, lpc, mainpc, outcome,
                   appended, loadCalls>>

\* variant: the handler does not test self.recording
OnKeyPressUnguarded(key) ==
    /\ Running
    /\ ListenerReady
    /\ events # <<>>
    /\ Head(events) = "press"
    /\ events' = Tail(events)
    /\ IF IsTrigger(key)
       THEN /\ record_thread < MaxThreads
            /\ lpc' = "start_104"
            /\ clip' = <<>>
            /\ text' = <<>>
            /\ raised' = "none"
            /\ endedBy' = "none"
            /\ injected' = <<>>
            /\ saveCalls' = 0
            /\ transCalls' = 0
            /\ clipWrites' = 0
            /\ insertCalls' = 0
            /\ UNCHANGED outcome
       ELSE UNCHANGED <<lpc, cycle, injected, outcome>>
    /\ UNCHANGED <<shared, config, capture, clipboard, mainpc, appended, loadCalls>>

\* on_key_press
OnKeyPress(key) ==
    /\ Running
    /\ ListenerReady
    /\ events # <<>>
    /\ Head(events) = "press"
    /\ events' = Tail(events)
    /\ IF IsTrigger(key)
       THEN IF ~recording
            THEN /\ record_thread < MaxThreads
                 /\ lpc' = "start_104"
                 /\ clip' = <<>>
                 /\ text' = <<>>
                 /\ raised' = "none"
                 /\ endedBy' = "none"
                 /\ injected' = <<>>
                 /\ saveCalls' = 0
                 /\ transCalls' = 0
                 /\ clipWrites' = 0
                 /\ insertCalls' = 0
                 /\ UNCHANGED outcome
            ELSE /\ outcome' = "press_ignored"
                 /\ UNCHANGED <<lpc, cycle, injected>>
       ELSE UNCHANGED <<lpc, cycle, injected, outcome>>
    /\ UNCHANGED <<shared, config, capture, clipboard, mainpc, appended, loadCalls>>

\* start_recording: self.recording = True
StartSetRecording ==
    /\ Running
    /\ lpc = "start_104"
    /\ recording' = TRUE
    /\ lpc' = "start_105"
    /\ UNCHANGED <<audio_data, record_thread, model, config, capture, desktop, cycle,
                   events, mainpc, outcome, appended, loadCalls>>

\* variant: the buffer is not reset
StartClearKeep ==
    /\ Running
    /\ lpc = "start_105"
    /\ appended' = 0
    /\ lpc' = "start_108"
    /\ UNCHANGED <<shared, config, capture, desktop, cycle, events, mainpc, outcome,
                   loadCalls>>

\* start_recording: self.audio_data = []
StartClear ==
    /\ Running
    /\ lpc = "start_105"
    /\ audio_data' = <<>>
    /\ appended' = 0
    /\ lpc' = "start_108"
    /\ UNCHANGED <<recording, record_thread, model, config, capture, desktop, cycle,
                   events, mainpc, outcome, loadCalls>>

\* start_recording: self.record_thread = threading.Thread(...); start()
StartThread ==
    /\ Running
    /\ lpc = "start_108"
    /\ record_thread' = record_thread + 1
    /\ tpc' = [tpc EXCEPT ![record_thread + 1] = "start"]
    /\ lpc' = "idle"
    /\ outcome' = "started"
    /\ UNCHANGED <<recording, audio_data, model, config, cb, desktop, cycle,
                   events, mainpc, appended, loadCalls>>

\* variant: the handler does not test which key was released
OnKeyReleaseAnyKey(key) ==
    /\ Running
    /\ ListenerReady
    /\ events # <<>>
    /\ Head(events) = "release"
    /\ events' = Tail(events)
    /\ IF recording
       THEN lpc' = "stop_132" /\ UNCHANGED outcome
       ELSE outcome' = "release_ignored" /\ UNCHANGED lpc
    /\ UNCHANGED <<shared, config, capture, desktop, cycle, mainpc, appended,
                   loadCalls>>

\* on_key_release
OnKeyRelease(key) ==
    /\ Running
    /\ ListenerReady
    /\ events # <<>>
    /\ Head(events) = "release"
    /\ events' = Tail(events)
    /\ IF IsTrigger(key)
       THEN IF recording
            THEN lpc' = "stop_132" /\ UNCHANGED outcome
            ELSE outcome' = "release_ignored" /\ UNCHANGED lpc
       ELSE UNCHANGED <<lpc, outcome>>
    /\ UNCHANGED <<shared, config, capture, desktop, cycle, mainpc, appended, loadCalls>>

\* stop_recording: if not self.recording: return
StopCheckFlag ==
    /\ Running
    /\ lpc = "stop_132"
    /\ IF ~recording
       THEN lpc' = "idle" /\ outcome' = "stop_noop"
       ELSE lpc' = "stop_136" /\ UNCHANGED outcome
    /\ UNCHANGED <<shared, config, capture, desktop, cycle, events, mainpc,
                   appended, loadCalls>>

\* variant: the flag is not cleared before the processing
StopSetFlagLate ==
    /\ Running
    /\ lpc = "stop_136"
    /\ lpc' = "stop_139"
    /\ UNCHANGED <<shared, config, capture, desktop, cycle, events, mainpc, outcome,
                   appended, loadCalls>>

\* stop_recording: self.recording = False
StopSetFlag ==
    /\ Running
    /\ lpc = "stop_136"
    /\ recording' = FALSE
    /\ endedBy' = IF recording THEN "release" ELSE endedBy
    /\ lpc' = "stop_139"
    /\ UNCHANGED <<audio_data, record_thread, model, config, capture, desktop, clip,
                   text, raised, saveCalls, transCalls, clipWrites, insertCalls,
                   events, mainpc, outcome, appended, loadCalls>>

\* stop_recording: if hasattr(self, 'record_thread') and self.record_thread.is_alive():
StopIsAlive ==
    /\ Running
    /\ lpc = "stop_139"
    /\ lpc' = IF IsAlive(record_thread) THEN "stop_140" ELSE "stop_143"
    /\ UNCHANGED <<shared, config, capture, desktop, cycle, events, mainpc, outcome,
                   appended, loadCalls>>

\* stop_recording: self.record_thread.join(timeout=1.0) returns because the thread ended
StopJoinFinished ==
    /\ Running
    /\ lpc = "stop_140"
    /\ ~IsAlive(record_thread)
    /\ lpc' = "stop_143"
    /\ UNCHANGED <<shared, config, capture, desktop, cycle, events, mainpc, outcome,
                   appended, loadCalls>>

\* variant: join() without a timeout, it returns only when the thread has ended
StopJoinForever ==
    /\ Running
    /\ lpc = "stop_140"
    /\ IsAlive(record_thread)
    /\ UNCHANGED vars

\* stop_recording: self.record_thread.join(timeout=1.0) returns because of the timeout
StopJoinTimeout ==
    /\ Running
    /\ lpc = "stop_140"
    /\ IsAlive(record_thread)
    /\ lpc' = "stop_143"
    /\ UNCHANGED <<shared, config, capture, desktop, cycle, events, mainpc, outcome,
                   appended, loadCalls>>

\* stop_recording: if len(self.audio_data) > 0: ... else: print("No audio data recorded.")
StopCheckLen ==
    /\ Running
    /\ lpc = "stop_143"
    /\ IF Len(audio_data) > 0
       THEN lpc' = "stop_146" /\ UNCHANGED outcome
       ELSE lpc' = "idle" /\ outcome' = "no_audio"
    /\ UNCHANGED <<shared, config, capture, desktop, cycle, events, mainpc,
                   appended, loadCalls>>

\* variant: a clip that is long enough goes to transcribe without being saved
StopConcatSkipsSave ==
    /\ Running
    /\ lpc = "stop_146"
    /\ \/ /\ clip' = audio_data
          /\ IF TooShort(Samples(audio_data), sample_rate)
             THEN lpc' = "idle" /\ outcome' = "too_short"
             ELSE lpc' = "stop_159" /\ UNCHANGED outcome
          /\ UNCHANGED raised
       \/ /\ raised' = "concat"
          /\ lpc' = "idle"
          /\ outcome' = "error"
          /\ UNCHANGED clip
    /\ UNCHANGED <<shared, config, capture, desktop, text, endedBy, saveCalls,
                   transCalls, clipWrites, insertCalls, events, mainpc, appended,
                   loadCalls>>

\* stop_recording: audio = np.concatenate(...).flatten(); the too-short test
StopConcat ==
    /\ Running
    /\ lpc = "stop_146"
    /\ \/ /\ clip' = audio_data
          /\ IF TooShort(Samples(audio_data), sample_rate)
             THEN lpc' = "idle" /\ outcome' = "too_short"
             ELSE lpc' = "stop_156" /\ UNCHANGED outcome
          /\ UNCHANGED raised
       \/ /\ raised' = "concat"
          /\ lpc' = "idle"
          /\ outcome' = "error"
          /\ UNCHANGED clip
    /\ UNCHANGED <<shared, config, capture, desktop, text, endedBy, saveCalls,
                   transCalls, clipWrites, insertCalls, events, mainpc, appended,
                   loadCalls>>

\* variant: the clip is written a second time
StopSaveTwice ==
    /\ Running
    /\ lpc = "stop_156"
    /\ saveCalls' = saveCalls + 2
    /\ \/ lpc' = "stop_159" /\ UNCHANGED <<raised, outcome>>
       \/ raised' = "save" /\ lpc' = "idle" /\ outcome' = "error"
    /\ UNCHANGED <<shared, config, capture, desktop, clip, text, endedBy,
                   transCalls, clipWrites, insertCalls, events, mainpc, appended,
                   loadCalls>>

\* stop_recording: self._save_wav(temp_wav, audio)
StopSave ==
    /\ Running
    /\ lpc = "stop_156"
    /\ saveCalls' = saveCalls + 1
    /\ \/ lpc' = "stop_159" /\ UNCHANGED <<raised, outcome>>
       \/ raised' = "save" /\ lpc' = "idle" /\ outcome' = "error"
    /\ UNCHANGED <<shared, config, capture, desktop, clip, text, endedBy,
                   transCalls, clipWrites, insertCalls, events, mainpc, appended,
                   loadCalls>>

\* variant: transcribe has no except clause, a failure of the engine reaches the
\* except clause of stop_recording
StopTranscribeRaises ==
    /\ Running
    /\ lpc = "stop_159"
    /\ transCalls' = transCalls + 1
    /\ \/ /\ LoadNeeded(model)
          /\ loadCalls' = loadCalls + 1
          /\ raised' = "load"
          /\ lpc' = "idle"
          /\ outcome' = "error"
          /\ UNCHANGED <<model, text>>
       \/ /\ model' = "loaded"
          /\ loadCalls' = IF LoadNeeded(model) THEN loadCalls + 1 ELSE loadCalls
          /\ raised' = "transcribe"
          /\ lpc' = "idle"
          /\ outcome' = "error"
          /\ UNCHANGED text
       \/ /\ model' = "loaded"
          /\ loadCalls' = IF LoadNeeded(model) THEN loadCalls + 1 ELSE loadCalls
          /\ text' \in Texts
          /\ UNCHANGED raised
          /\ IF HasText(text')
             THEN lpc' = "stop_164" /\ UNCHANGED outcome
             ELSE lpc' = "idle" /\ outcome' = "no_text"
    /\ UNCHANGED <<recording, audio_data, record_thread, config, capture, desktop,
                   clip, endedBy, saveCalls, clipWrites, insertCalls, events, mainpc,
                   appended>>

\* stop_recording: text = self.transcribe(temp_wav); if text and text.strip():
\* transcribe: load the model on first use, model.transcribe, return result["text"],
\* any exception -> return ""
StopTranscribe ==
    /\ Running
    /\ lpc = "stop_159"
    /\ transCalls' = transCalls + 1
    /\ \/ \* whisper.load_model raises
          /\ LoadNeeded(model)
          /\ loadCalls' = loadCalls + 1
          /\ raised' = "load"
          /\ text' = <<>>
          /\ UNCHANGED model
       \/ \* model.transcribe raises
          /\ model' = "loaded"
          /\ loadCalls' = IF LoadNeeded(model) THEN loadCalls + 1 ELSE loadCalls
          /\ raised' = "transcribe"
          /\ text' = <<>>
       \/ \* model.transcribe returns
          /\ model' = "loaded"
          /\ loadCalls' = IF LoadNeeded(model) THEN loadCalls + 1 ELSE loadCalls
          /\ text' \in Texts
          /\ UNCHANGED raised
    /\ IF HasText(text')
       THEN lpc' = "stop_164" /\ UNCHANGED outcome
       ELSE lpc' = "idle" /\ outcome' = "no_text"
    /\ UNCHANGED <<recording, audio_data, record_thread, config, capture, desktop,
                   clip, endedBy, saveCalls, clipWrites, insertCalls, events, mainpc,
                   appended>>

\* variant: the paste keychord in both modes
InjectCallsPasteOnly(t) == PasteCalls

\* the xdotool invocations insert_text makes for a text in the configured mode
InjectCalls(t) == IF terminal_mode THEN TypeCalls(t) ELSE PasteCalls

\* variant: the injection comes before the clipboard write
InsertTextInjectFirst ==
    /\ Running
    /\ lpc = "stop_164"
    /\ insertCalls' = insertCalls + 1
    /\ \/ \* a subprocess.run raises after k invocations went through
          /\ \E k \in 0..(Len(InjectCalls(text)) - 1) :
                injected' = SubSeq(InjectCalls(text), 1, k)
          /\ raised' = "inject"
          /\ UNCHANGED <<clipboard, clipWrites>>
       \/ \* pyperclip.copy raises
          /\ injected' = InjectCalls(text)
          /\ clipWrites' = clipWrites + 1
          /\ raised' = "clipboard"
          /\ UNCHANGED clipboard
       \/ \* no exception
          /\ injected' = InjectCalls(text)
          /\ clipWrites' = clipWrites + 1
          /\ clipboard' = text
          /\ UNCHANGED raised
    /\ lpc' = "idle"
    /\ outcome' = "inserted"
    /\ UNCHANGED <<shared, config, capture, clip, text, endedBy, saveCalls,
                   transCalls, events, mainpc, appended, loadCalls>>

\* stop_recording: self.insert_text(text)
\* insert_text: pyperclip.copy(text), then xdotool type per character or xdotool key
\* ctrl+v; any exception is caught inside insert_text
InsertText ==
    /\ Running
    /\ lpc = "stop_164"
    /\ insertCalls' = insertCalls + 1
    /\ clipWrites' = clipWrites + 1
    /\ \/ \* pyperclip.copy raises
          /\ raised' = "clipboard"
          /\ UNCHANGED <<clipboard, injected>>
       \/ \* a subprocess.run raises after k invocations went through
          /\ clipboard' = text
          /\ \E k \in 0..(Len(InjectCalls(text)) - 1) :
                injected' = SubSeq(InjectCalls(text), 1, k)
          /\ raised' = "inject"
       \/ \* no exception
          /\ clipboard' = text
          /\ injected' = InjectCalls(text)
          /\ UNCHANGED raised
    /\ lpc' = "idle"
    /\ outcome' = "inserted"
    /\ UNCHANGED <<shared, config, capture, clip, text, endedBy, saveCalls,
                   transCalls, events, mainpc, appended, loadCalls>>

\* ---- capture threads ------------------------------------------------------

\* _record: with sd.InputStream(...) opens and starts the stream
RecOpen(t) ==
    /\ Running
    /\ tpc[t] = "start"
    /\ tpc' = [tpc EXCEPT ![t] = "loop"]
    /\ UNCHANGED <<shared, config, cb, desktop, cycle, lpc, events, mainpc, outcome,
                   appended, loadCalls>>

\* _record: sd.InputStream(...) raises
RecOpenFail(t) ==
    /\ Running
    /\ tpc[t] = "start"
    /\ tpc' = [tpc EXCEPT ![t] = "except"]
    /\ UNCHANGED <<shared, config, cb, desktop, cycle, lpc, events, mainpc, outcome,
                   appended, loadCalls>>

\* _record: while self.recording: time.sleep(0.1) -- the test reads False
RecLoopExit(t) ==
    /\ Running
    /\ tpc[t] = "loop"
    /\ ~recording
    /\ tpc' = [tpc EXCEPT ![t] = "closing"]
    /\ UNCHANGED <<shared, config, cb, desktop, cycle, lpc, events, mainpc, outcome,
                   appended, loadCalls>>

\* _record: leaving the with block closes the stream, after a running callback ends
RecClose(t) ==
    /\ Running
    /\ tpc[t] = "closing"
    /\ ~cb[t]
    /\ tpc' = [tpc EXCEPT ![t] = "done"]
    /\ UNCHANGED <<shared, config, cb, desktop, cycle, lpc, events, mainpc, outcome,
                   appended, loadCalls>>

\* _record: closing the stream raises
RecCloseFail(t) ==
    /\ Running
    /\ tpc[t] = "closing"
    /\ ~cb[t]
    /\ tpc' = [tpc EXCEPT ![t] = "except"]
    /\ UNCHANGED <<shared, config, cb, desktop, cycle, lpc, events, mainpc, outcome,
                   appended, loadCalls>>

\* _record: except Exception: self.recording = False
RecExcept(t) ==
    /\ Running
    /\ tpc[t] = "except"
    /\ recording' = FALSE
    /\ endedBy' = IF recording THEN "error" ELSE endedBy
    /\ tpc' = [tpc EXCEPT ![t] = "done"]
    /\ UNCHANGED <<audio_data, record_thread, model, config, cb, desktop, clip, text,
                   raised, saveCalls, transCalls, clipWrites, insertCalls, lpc,
                   events, mainpc, outcome, appended, loadCalls>>

\* callbacks that have passed their test and not yet appended
PendingAppends == Cardinality({t \in ThreadIds : cb[t]})

\* _audio_callback: if self.recording: -- the test reads True
CallbackTest(t) ==
    /\ Running
    /\ StreamOpen(t)
    /\ ~cb[t]
    /\ recording
    /\ Len(audio_data) + PendingAppends < MaxChunks
    /\ cb' = [cb EXCEPT ![t] = TRUE]
    /\ UNCHANGED <<shared, config, tpc, desktop, cycle, lpc, events, mainpc, outcome,
                   appended, loadCalls>>

\* _audio_callback: self.audio_data.append(indata.copy())
CallbackAppend(t, frames) ==
    /\ Running
    /\ cb[t]
    /\ audio_data' = Append(audio_data, [sess |-> t, frames |-> frames, live |-> recording])
    /\ appended' = appended + 1
    /\ cb' = [cb EXCEPT ![t] = FALSE]
    /\ UNCHANGED <<recording, record_thread, model, config, tpc, desktop, cycle, lpc,
                   events, mainpc, outcome, loadCalls>>

\* ---- specification --------------------------------------------------------
Next ==
    \/ RunStart
    \/ \E kind \in Kinds : KeyEvent(kind)
    \/ \E key \in Keys : OnKeyPress(key)
    \/ StartSetRecording
    \/ StartClear
    \/ StartThread
    \/ \E key \in Keys : OnKeyRelease(key)
    \/ StopCheckFlag
    \/ StopSetFlag
    \/ StopIsAlive
    \/ StopJoinFinished
    \/ StopJoinTimeout
    \/ StopCheckLen
    \/ StopConcat
    \/ StopSave
    \/ StopTranscribe
    \/ InsertText
    \/ \E t \in ThreadIds : RecOpen(t)
    \/ \E t \in ThreadIds : RecOpenFail(t)
    \/ \E t \in ThreadIds : RecLoopExit(t)
    \/ \E t \in ThreadIds : RecClose(t)
    \/ \E t \in ThreadIds : RecCloseFail(t)
    \/ \E t \in ThreadIds : RecExcept(t)
    \/ \E t \in ThreadIds : CallbackTest(t)
    \/ \E t \in ThreadIds, frames \in FrameCounts : CallbackAppend(t, frames)

Spec == Init /\ [][Next]_vars

\* the same program with the process interrupt
NextShutdown == Next \/ Shutdown

SpecShutdown == Init /\ [][NextShutdown]_vars

\* the steps of stop_recording after it has cleared self.recording
StopSteps ==
    \/ StopIsAlive
    \/ StopJoinFinished
    \/ StopJoinTimeout
    \/ StopCheckLen
    \/ StopConcat
    \/ StopSave
    \/ StopTranscribe
    \/ InsertText

\* the listener thread keeps running while it is inside stop_recording; nothing is
\* assumed about the capture threads or the key source
SpecListenerFair == Init /\ [][Next]_vars /\ WF_vars(StopSteps)

\* the steps of one _record thread: open the stream, poll the flag, leave the
\* with block, run the except branch
RecordSteps(t) ==
    \/ RecOpen(t)
    \/ RecOpenFail(t)
    \/ RecLoopExit(t)
    \/ RecClose(t)
    \/ RecCloseFail(t)
    \/ RecExcept(t)

\* the steps the listener thread takes by itself once an event is queued:
\* dispatching it and running start_recording or stop_recording to the end
ListenerSteps ==
    \/ \E key \in Keys : OnKeyPress(key)
    \/ StartSetRecording
    \/ StartClear
    \/ StartThread
    \/ \E key \in Keys : OnKeyRelease(key)
    \/ StopCheckFlag
    \/ StopSetFlag
    \/ StopSteps

\* an audio callback that has passed its test goes on to its append
CallbackFinishes(t) == \E frames \in FrameCounts : CallbackAppend(t, frames)

\* every thread of the process is scheduled again and again; the user is
\* under no obligation to press or release a key, nor the device to deliver
\* another chunk
SpecThreadsFair ==
    /\ Init
    /\ [][Next]_vars
    /\ WF_vars(ListenerSteps)
    /\ \A t \in ThreadIds : WF_vars(RecordSteps(t))
    /\ \A t \in ThreadIds : WF_vars(CallbackFinishes(t))

TypeOK ==
    /\ recording \in BOOLEAN
    /\ Len(audio_data) <= MaxChunks
    /\ record_thread \in 0..MaxThreads
    /\ model \in {"None", "loaded"}
    /\ lpc \in {"idle", "start_104", "start_105", "start_108", "stop_132", "stop_136"}
                  \cup ProcessingPcs
    /\ mainpc \in {"created", "running", "exited"}
    /\ Len(events) <= MaxPending

\* ---- properties -----------------------------------------------------------

\* streams that are open
OpenStreams == {t \in ThreadIds : StreamOpen(t)}

\* the text has a character that is not whitespace
NonBlank(t) == \E i \in 1..Len(t) : t[i] \notin Whitespace

\* the ways a trigger release can end
ReleaseOutcomes == {"release_ignored", "stop_noop", "no_audio", "too_short", "error",
                    "no_text", "inserted"}

\* C1: there is never a state in which two audio input streams are open at the
\* same time.
C1_AtMostOneStream == Cardinality(OpenStreams) <= 1

\* C2: the WAV save and transcribe are invoked only for a clip of n samples with
\* 2*n >= sample_rate; a shorter clip is discarded with no save and no
\* transcription, and a clip of exactly half a second is attempted.
C2_MinimumDuration ==
    /\ (saveCalls > 0 \/ transCalls > 0 \/ lpc \in {"stop_156", "stop_159", "stop_164"})
          => (clip # <<>> /\ 2 * Samples(clip) >= sample_rate)
    /\ (clip # <<>> /\ 2 * Samples(clip) < sample_rate)
          => (saveCalls = 0 /\ transCalls = 0 /\ lpc = "idle")
    /\ (clip # <<>> /\ 2 * Samples(clip) >= sample_rate)
          => (lpc = "stop_156" \/ saveCalls = 1)

\* a clip of exactly half a second has been transcribed
C2_Witness == clip # <<>> /\ 2 * Samples(clip) = sample_rate /\ transCalls = 1

\* a step leaves the recording being processed alone and starts no other one
ProcessingStepKeeps ==
    /\ lpc' \in ProcessingPcs \cup {"idle"}
    /\ record_thread' = record_thread
    /\ \A t \in ThreadIds : tpc[t] = "unborn" => tpc'[t] = "unborn"
    /\ ~recording'
    /\ Len(audio_data') >= Len(audio_data)
    /\ SubSeq(audio_data', 1, Len(audio_data)) = audio_data
    /\ (clip # <<>> => clip' = clip)
    /\ Len(events') >= Len(events)
    /\ SubSeq(events', 1, Len(events)) = events

\* C3: while stop_recording is processing a recording, an arriving press starts no
\* capture thread, does not set the recording flag, does not clear or alter the
\* buffer or the clip being processed, and stays pending: no recording starts
\* before the processing has ended.
C3_NoStartWhileProcessing ==
    [][(lpc \in ProcessingPcs) => ProcessingStepKeeps]_vars

\* a press is pending while transcribe is about to run
C3_Witness == lpc = "stop_159" /\ events = <<"press">>

\* C4: when a step of the processing pathway has raised, the handler has returned
\* and the recording flag is False, so the next press starts a recording.
C4_FailureLeavesIdle == raised # "none" => (lpc = "idle" /\ ~recording)

\* the WAV save raised and the handler has returned
C4_Witness == raised = "save" /\ lpc = "idle" /\ outcome = "error" /\ ~recording

\* C5: when a stream error has ended the capture session, the chunks buffered in
\* it are finalized by the trigger release that follows.
C5_ErrorKeepsChunks ==
    (lpc = "idle" /\ endedBy = "error" /\ appended > 0
        /\ outcome \in {"release_ignored", "stop_noop"})
       => (clip # <<>> \/ raised = "concat")

C7_NoChunksNoWork ==
    (lpc = "idle" /\ appended = 0 /\ outcome \in ReleaseOutcomes)
       => /\ saveCalls = 0 /\ transCalls = 0 /\ clipWrites = 0 /\ insertCalls = 0
          /\ injected = <<>>
          /\ ~recording

\* a release found the buffer of the second recording empty
C7_Witness ==
    lpc = "idle" /\ outcome = "no_audio" /\ appended = 0 /\ record_thread = 2

\* C8: when transcribe returned a text that is empty or only whitespace,
\* insert_text is not called, nothing is written to the clipboard, nothing is
\* injected, and the handler has returned with the recording flag False.
C8_BlankTextNotInserted ==
    (transCalls = 1 /\ ~NonBlank(text))
       => /\ insertCalls = 0 /\ clipWrites = 0 /\ injected = <<>>
          /\ lpc = "idle" /\ ~recording

\* model.transcribe returned one blank
C8_Witness == transCalls = 1 /\ text = <<" ">> /\ raised = "none"

\* C9: once the model is loaded it stays loaded and no transcribe call loads again.
C9_LoadOnce ==
    [][model = "loaded" => (model' = "loaded" /\ loadCalls' = loadCalls)]_vars

\* the second recording was transcribed, after the first one was transcribed and
\* inserted, with one load in all
C9_Witness ==
    /\ record_thread = 2 /\ lpc = "idle" /\ transCalls = 1 /\ raised = "none"
    /\ clipWrites = 0 /\ clipboard # "untouched" /\ loadCalls = 1

\* C10: when run has returned after the interrupt, no capture stream is open and
\* the recording flag is False.
C10_ShutdownStopsCapture ==
    mainpc = "exited" => (~recording /\ OpenStreams = {})

\* C11: a failure of whisper.load_model or of model.transcribe ends inside
\* transcribe as the empty text: stop_recording takes its "no transcription
\* result" branch and not its except clause, nothing is written to the clipboard
\* or injected, and the handler has returned with the recording flag False.
C11_EngineFailureIsEmptyText ==
    raised \in {"load", "transcribe"}
       => /\ text = <<>> /\ transCalls = 1
          /\ outcome \in {"no_text", "release_ignored"}
          /\ insertCalls = 0 /\ clipWrites = 0 /\ injected = <<>>
          /\ lpc = "idle" /\ ~recording

\* model.transcribe raised on a loaded model and the cycle ended with no text
C11_Witness ==
    raised = "transcribe" /\ model = "loaded" /\ outcome = "no_text" /\ lpc = "idle"

\* C12: every insert_text call attempts the clipboard write, no injection is made
\* unless the clipboard write went through before it, and after an injection
\* failure the clipboard holds the text and the handler has returned with the
\* recording flag False.
C12_ClipboardFirst ==
    /\ insertCalls = clipWrites
    /\ raised = "clipboard" => injected = <<>>
    /\ injected # <<>> => (clipWrites = 1 /\ clipboard = text)
    /\ raised = "inject"
          => /\ clipboard = text /\ clipWrites = 1
             /\ outcome \in {"inserted", "release_ignored"}
             /\ lpc = "idle" /\ ~recording

\* the injection failed and the clipboard holds the transcribed text
C12_Witness ==
    raised = "inject" /\ clipboard = text /\ HasText(text) /\ lpc = "idle"

\* the invocations of one kind among the xdotool invocations made
CallsOfKind(kind) == {i \in 1..Len(injected) : injected[i][1] = kind}

\* C13: terminal_mode alone selects the injection: in terminal mode only "type"
\* invocations are made and an insert_text without failure makes one per
\* character of the text, in the order of the text; otherwise only the paste
\* keychord is invoked and an insert_text without failure invokes it once.
C13_InjectionByMode ==
    /\ terminal_mode => CallsOfKind("key") = {}
    /\ ~terminal_mode => CallsOfKind("type") = {}
    /\ (insertCalls = 1 /\ raised = "none")
          => IF terminal_mode
             THEN /\ Len(injected) = Len(text)
                  /\ \A i \in 1..Len(text) : injected[i] = <<"type", text[i]>>
             ELSE injected = << <<"key", "ctrl+v">> >>

\* a text of two characters was typed character by character
C13_Witness ==
    /\ terminal_mode /\ insertCalls = 1 /\ raised = "none"
    /\ injected = << <<"type", " ">>, <<"type", "a">> >>

\* C14: the clip that stop_recording concatenates holds only chunks that the
\* stream of the recording being stopped delivered, appended while the recording
\* flag was set.
C14_ClipIsSessionAudio ==
    clip # <<>> =>
       \A i \in 1..Len(clip) : clip[i].sess = record_thread /\ clip[i].live

\* the listener thread takes a press from the queue
PressHandled == ListenerReady /\ events # <<>> /\ Head(events) = "press"
                   /\ events' = Tail(events)

\* C15: a press of any key handled while self.recording is True changes nothing
\* of the recorder: the flag stays True, the buffer is not cleared, no thread is
\* started and the listener thread is back at idle.
C15_PressWhileRecordingIsNoOp ==
    [][(PressHandled /\ recording) =>
          (recording' /\ lpc' = "idle"
             /\ UNCHANGED <<audio_data, appended, record_thread, tpc, cb, model,
                            cycle, desktop>>)]_vars

\* a trigger press was ignored while chunks were buffered
C15_Witness ==
    outcome = "press_ignored" /\ recording /\ lpc = "idle" /\ audio_data # <<>>

\* C16: once the join step of stop_recording is over, the stream of the thread
\* it stopped is closed.
C16_StreamClosedAfterJoin ==
    lpc \in (ProcessingPcs \ {"stop_139", "stop_140"}) => ~StreamOpen(record_thread)

\* C17: once stop_recording has cleared the flag it always gets to its return,
\* whatever the capture threads do.
C17_StopReturns == (lpc \in ProcessingPcs) ~> (lpc = "idle")

\* stop_recording has returned while the thread it stopped is still alive
C17_Witness ==
    /\ lpc = "idle" /\ endedBy = "release" /\ outcome \in ReleaseOutcomes
    /\ IsAlive(record_thread) /\ ~recording

\* C18: the steps of a processing run come in one order: the flag is cleared
\* before the buffer is concatenated, the duration test comes before the WAV
\* save, the save before transcribe, and transcribe returns a text that is not
\* blank before the clipboard is written or anything is injected.
C18_StepOrder ==
    /\ clip # <<>> => (~recording /\ endedBy # "none")
    /\ (saveCalls >= 1 \/ lpc = "stop_156")
          => (clip # <<>> /\ 2 * Samples(clip) >= sample_rate)
    /\ lpc = "stop_156" => (saveCalls = 0 /\ transCalls = 0)
    /\ (transCalls >= 1 \/ lpc = "stop_159") => (saveCalls = 1 /\ raised # "save")
    /\ lpc = "stop_159" => (transCalls = 0 /\ insertCalls = 0)
    /\ (insertCalls >= 1 \/ clipWrites >= 1 \/ injected # <<>> \/ lpc = "stop_164")
          => (transCalls = 1 /\ NonBlank(text))
    /\ lpc = "stop_164" => (insertCalls = 0 /\ clipWrites = 0 /\ injected = <<>>)

\* a run went from the release through save and transcribe to the injection
C18_Witness ==
    /\ lpc = "idle" /\ outcome = "inserted" /\ endedBy = "release"
    /\ clip # <<>> /\ saveCalls = 1 /\ transCalls = 1 /\ insertCalls = 1
    /\ raised = "none" /\ injected = InjectCalls(text) /\ clipboard = text

\* the listener thread takes a release from the queue
ReleaseHandled == ListenerReady /\ events # <<>> /\ Head(events) = "release"
                     /\ events' = Tail(events)

\* the listener thread handles an event of a key that is not the trigger
OtherKeyHandled ==
    \E key \in Keys : ~IsTrigger(key) /\ (OnKeyPress(key) \/ OnKeyRelease(key))

\* nothing of the recorder changes and the listener thread stays at idle
RecorderUnchanged ==
    UNCHANGED <<shared, capture, cycle, desktop, appended, loadCalls, lpc, mainpc>>

\* stop_recording is about to clear the flag
RunStarting == lpc \in {"stop_132", "stop_136"}

\* C19: a release handled while self.recording is False, and a press or release
\* of a key that is not the trigger, change nothing of the recorder; and a
\* processing run starts only for a recording that was started and has not been
\* processed.
C19_IgnoredEventsChangeNothing ==
    /\ [][((ReleaseHandled /\ ~recording) \/ OtherKeyHandled) => RecorderUnchanged]_vars
    /\ [](RunStarting =>
            (record_thread >= 1 /\ endedBy # "release" /\ clip = <<>>
               /\ saveCalls = 0 /\ transCalls = 0 /\ insertCalls = 0))

\* a release was ignored after a recording had been processed
C19_Witness ==
    /\ outcome = "release_ignored" /\ lpc = "idle" /\ ~recording
    /\ saveCalls = 1 /\ transCalls = 1

\* C20: a capture thread whose recording was ended (a later recording was
\* started after it, which takes a handled release or the thread's own
\* failure) eventually leaves its loop, closes its stream and exits; a later
\* press does not keep it alive
C20_StoppedThreadExits ==
    \A t \in ThreadIds : (t < record_thread) ~> (tpc[t] = "done")
====
